---- MODULE Spec2Model ----
(***************************************************************************)
(* A model of max/nn/rotary_embedding.py: the rotary position embedding    *)
(* layers RotaryEmbedding, OptimizedRotaryEmbedding and                    *)
(* Llama3RotaryEmbedding, their lazily built cos/sin table and __call__.   *)
(*                                                                         *)
(* Tensors are records [shape, dtype, data] with the data in row-major     *)
(* order, as the graph ops lay them out.  Frequencies are exact rationals  *)
(* <<num, den>>.  Angles are measured in quarter turns (one radian of the  *)
(* code is one quarter turn of the model, so 2*pi is 4), and cos and sin   *)
(* are evaluated on the quarter-turn grid: the angle is rounded down to a  *)
(* whole number of quarter turns, which keeps every table entry an exact   *)
(* point (cos, sin) of the unit circle with integer coordinates.           *)
(***************************************************************************)
EXTENDS Integers, Sequences, FiniteSets, TLC

(***************************************************************************)
(* Bounds of the model.                                                    *)
(***************************************************************************)
\* max_seq_len of the instance: the table has 2 * MaxSeqLen rows.
MaxSeqLen == 2
\* The largest batch * seq_len * n_kv_heads of an activation.
MaxCells == 2

(***************************************************************************)
(* Integer and rational arithmetic.                                        *)
(***************************************************************************)
Max2(a, b) == IF a >= b THEN a ELSE b

Abs(a) == IF a < 0 THEN -a ELSE a

RECURSIVE Gcd(_, _)
Gcd(a, b) == IF b = 0 THEN a ELSE Gcd(b, a % b)

RECURSIVE Pow(_, _)
Pow(b, e) == IF e = 0 THEN 1 ELSE b * Pow(b, e - 1)

\* The rational n/d in lowest terms with a positive denominator.  A float
\* division by zero gives inf or nan: <<1, 0>>, <<-1, 0>> or <<0, 0>>.
Rat(n, d) ==
  LET g == Max2(1, Gcd(Abs(n), Abs(d)))
      s == IF d < 0 THEN -1 ELSE 1
  IN  <<(s * n) \div g, (s * d) \div g>>

RInt(n) == <<n, 1>>
RAdd(p, q) == Rat(p[1] * q[2] + q[1] * p[2], p[2] * q[2])
RSub(p, q) == Rat(p[1] * q[2] - q[1] * p[2], p[2] * q[2])
RMul(p, q) == Rat(p[1] * q[1], p[2] * q[2])
RDiv(p, q) == Rat(p[1] * q[2], p[2] * q[1])
RLess(p, q) == p[1] * q[2] < q[1] * p[2]
RFloor(p) == p[1] \div p[2]

(***************************************************************************)
(* Tensors: shapes, row-major indexing and the graph ops __call__ uses.    *)
(***************************************************************************)
RECURSIVE Prod(_)
Prod(s) == IF s = <<>> THEN 1 ELSE Head(s) * Prod(Tail(s))

Front(s) == SubSeq(s, 1, Len(s) - 1)

Last(s) == s[Len(s)]

\* A tensor: its shape, its dtype and its elements in row-major order,
\* element p (0-based) being data[p + 1].
Tensor(shape, dtype, F(_)) ==
  [shape |-> shape, dtype |-> dtype,
   data |-> [k \in 1..Prod(shape) |-> F(k - 1)]]

El(t, p) == t.data[p + 1]

\* The value of an Optional field that holds None.
None == [shape |-> <<>>, dtype |-> "None", data |-> <<>>]

\* t[..., c]: index c of the last axis, which is dropped.
TakeLast(t, c) ==
  Tensor(Front(t.shape), t.dtype, LAMBDA p : El(t, p * Last(t.shape) + c))

\* t[..., lo:hi]: a slice of the last axis.
SliceLast(t, lo, hi) ==
  Tensor(Append(Front(t.shape), hi - lo), t.dtype,
         LAMBDA p : El(t, (p \div (hi - lo)) * Last(t.shape)
                          + lo + (p % (hi - lo))))

\* t[lo:hi]: a slice of the first axis.
SliceFirst(t, lo, hi) ==
  Tensor(<<hi - lo>> \o Tail(t.shape), t.dtype,
         LAMBDA p : El(t, lo * Prod(Tail(t.shape)) + p))

\* ops.reshape: the same data under another shape.
Reshape(t, shape) == [t EXCEPT !.shape = shape]

\* ops.unsqueeze(t, axis): a new axis of length 1 before position axis.
Unsqueeze(t, axis) ==
  Reshape(t, SubSeq(t.shape, 1, axis) \o <<1>>
             \o SubSeq(t.shape, axis + 1, Len(t.shape)))

\* ops.as_interleaved_complex: (..., d) viewed as (..., d/2, 2).
AsInterleavedComplex(t) ==
  Reshape(t, Front(t.shape) \o <<Last(t.shape) \div 2, 2>>)

\* A float dtype holds exactly the integers of at most its significand's
\* width (8 bits for bfloat16, 24 for float32); a wider one is rounded to
\* the nearest multiple of the power of two above that width.
MaxExact(dtype) == IF dtype = "bfloat16" THEN 256 ELSE 16777216

RECURSIVE Ulp(_, _)
Ulp(v, dtype) ==
  IF Abs(v) <= MaxExact(dtype) THEN 1 ELSE 2 * Ulp(v \div 2, dtype)

RoundTo(v, dtype) ==
  IF Abs(v) <= MaxExact(dtype) THEN v
  ELSE LET u == Ulp(v, dtype) IN ((2 * v + u) \div (2 * u)) * u

\* ops.cast: the values rounded to the target dtype.
Cast(t, dtype) ==
  [shape |-> t.shape, dtype |-> dtype,
   data |-> [k \in DOMAIN t.data |-> RoundTo(t.data[k], dtype)]]

\* Elementwise ops broadcast axes of length 1 (shapes of equal rank).
Broadcastable(sa, sb) ==
  /\ Len(sa) = Len(sb)
  /\ \A i \in 1..Len(sa) : sa[i] = sb[i] \/ sa[i] = 1 \/ sb[i] = 1

BroadcastShape(sa, sb) == [i \in 1..Len(sa) |-> Max2(sa[i], sb[i])]

\* The position in an operand of shape sin of the element that is broadcast
\* to position p of the result of shape sout: axes i..1, p and the
\* operand's stride reduced axis by axis from the last.
RECURSIVE BroadcastPos(_, _, _, _, _)
BroadcastPos(sout, sin, i, p, stride) ==
  IF i = 0 THEN 0
  ELSE (IF sin[i] = 1 THEN 0 ELSE (p % sout[i]) * stride)
       + BroadcastPos(sout, sin, i - 1, p \div sout[i], stride * sin[i])

Promote(da, db) ==
  IF da = db THEN da
  ELSE IF MaxExact(da) >= MaxExact(db) THEN da ELSE db

BinOp(a, b, Op(_, _)) ==
  LET shape == BroadcastShape(a.shape, b.shape)
      dtype == Promote(a.dtype, b.dtype)
  IN  Tensor(shape, dtype,
             LAMBDA p : RoundTo(Op(El(a, BroadcastPos(shape, a.shape, Len(shape), p, 1)),
                                   El(b, BroadcastPos(shape, b.shape, Len(shape), p, 1))),
                                dtype))

Mul(a, b) == BinOp(a, b, LAMBDA p, q : p * q)
Sub(a, b) == BinOp(a, b, LAMBDA p, q : p - q)
Add(a, b) == BinOp(a, b, LAMBDA p, q : p + q)

\* ops.stack([a, b], axis=-1): a new last axis of length 2.
StackLast(a, b) ==
  Tensor(Append(a.shape, 2), a.dtype,
         LAMBDA p : IF p % 2 = 0 THEN El(a, p \div 2) ELSE El(b, p \div 2))

\* ops.concat((a, b), axis=-1): b after a along the last axis.
ConcatLast(a, b) ==
  LET la == Last(a.shape)
      lb == Last(b.shape)
  IN  Tensor(Append(Front(a.shape), la + lb), a.dtype,
             LAMBDA p : IF p % (la + lb) < la
                        THEN El(a, (p \div (la + lb)) * la + (p % (la + lb)))
                        ELSE El(b, (p \div (la + lb)) * lb + (p % (la + lb)) - la))

(***************************************************************************)
(* Configurations: the dataclass fields of an engine.                      *)
(***************************************************************************)
Kinds == {"RotaryEmbedding", "OptimizedRotaryEmbedding", "Llama3RotaryEmbedding"}

Thetas == {4}

DTypes == {"float32", "bfloat16"}

\* scaling_params = None.
NoParams ==
  [factor |-> 0, low_freq_factor |-> 0, high_freq_factor |-> 0,
   orig_max_position |-> 0]

\* Llama3RopeScalingParams instances.
ScalingParams ==
  { [factor |-> 2, low_freq_factor |-> 1, high_freq_factor |-> 4,
     orig_max_position |-> 32],
    [factor |-> 2, low_freq_factor |-> 2, high_freq_factor |-> 2,
     orig_max_position |-> 16] }

HeadDim(c) == c.dim \div c.n_heads

Configs ==
  { c \in [kind : Kinds, dim : {4}, n_heads : {1, 2}, theta : Thetas,
           max_seq_len : {MaxSeqLen}, interleaved : BOOLEAN,
           scaling_params : {NoParams} \cup ScalingParams] :
      /\ c.dim % c.n_heads = 0
      /\ HeadDim(c) % 2 = 0
      /\ c.kind # "Llama3RotaryEmbedding" => c.scaling_params = NoParams }

(***************************************************************************)
(* Inverse frequencies.                                                    *)
(***************************************************************************)
\* theta ** (i / n) for an even i: the (n/2)-th root of theta to the power
\* i/2, exact for the thetas of the model.
ThetaPow(theta, i, n) ==
  Pow(CHOOSE r \in 1..theta : Pow(r, n \div 2) = theta, i \div 2)

\* BaseInvFreqs with iota counted from 2.
BaseInvFreqsFromTwo(c) ==
  LET n == HeadDim(c)
  IN  [k \in 1..(n \div 2) |-> RDiv(RInt(1), RInt(ThetaPow(c.theta, 2 * k, n)))]

\* RotaryEmbedding._compute_inv_freqs: iota = 0, 2, ..., n - 2 and
\* inv_freq = 1 / theta ** (iota / n).
BaseInvFreqs(c) ==
  LET n == HeadDim(c)
  IN  [k \in 1..(n \div 2) |-> RDiv(RInt(1), RInt(ThetaPow(c.theta, 2 * (k - 1), n)))]

\* 2 * math.pi, in quarter turns.
TwoPi == 4

\* Lines 198-205.
LowFreqWavelen(p) == Rat(p.orig_max_position, p.low_freq_factor)

HighFreqWavelen(p) == Rat(p.orig_max_position, p.high_freq_factor)

\* Line 207: wave_len = 2 * math.pi / inv_freqs, one component f.
WaveLen(f) == RDiv(RInt(TwoPi), f)

\* Llama3Smooth without the test of line 208.
Llama3SmoothUnguarded(f, p) ==
  RDiv(RSub(RDiv(RInt(p.orig_max_position), WaveLen(f)),
            RInt(p.low_freq_factor)),
       RInt(p.high_freq_factor - p.low_freq_factor))

\* Lines 208-220: smooth.
Llama3Smooth(f, p) ==
  IF p.low_freq_factor # p.high_freq_factor
  THEN RDiv(RSub(RDiv(RInt(p.orig_max_position), WaveLen(f)),
                 RInt(p.low_freq_factor)),
            RInt(p.high_freq_factor - p.low_freq_factor))
  ELSE RInt(0)

\* Llama3Blend with the weights smooth and 1 - smooth exchanged.
Llama3BlendSwapped(f, p) ==
  RAdd(RDiv(RMul(Llama3Smooth(f, p), f), RInt(p.factor)),
       RMul(RSub(RInt(1), Llama3Smooth(f, p)), f))

\* Lines 227-228: (1 - smooth) * inv_freqs / factor + smooth * inv_freqs.
Llama3Blend(f, p) ==
  RAdd(RDiv(RMul(RSub(RInt(1), Llama3Smooth(f, p)), f), RInt(p.factor)),
       RMul(Llama3Smooth(f, p), f))

\* Llama3Branch with the first comparison made against the low-frequency
\* wavelength.
Llama3BranchLowFirst(f, p) ==
  IF RLess(WaveLen(f), LowFreqWavelen(p)) THEN "high"
  ELSE IF RLess(LowFreqWavelen(p), WaveLen(f)) THEN "low"
  ELSE "mid"

\* Lines 221-230: the operand the two nested ops.select take for a
\* component.
Llama3Branch(f, p) ==
  IF RLess(WaveLen(f), HighFreqWavelen(p)) THEN "high"
  ELSE IF RLess(LowFreqWavelen(p), WaveLen(f)) THEN "low"
  ELSE "mid"

\* Llama3Scale with the low-frequency branch multiplying by factor.
Llama3ScaleMultiplied(f, p) ==
  IF Llama3Branch(f, p) = "high" THEN f
  ELSE IF Llama3Branch(f, p) = "low" THEN RMul(f, RInt(p.factor))
  ELSE Llama3Blend(f, p)

\* Llama3RotaryEmbedding._compute_inv_freqs, one component f.
Llama3Scale(f, p) ==
  IF Llama3Branch(f, p) = "high" THEN f
  ELSE IF Llama3Branch(f, p) = "low" THEN RDiv(f, RInt(p.factor))
  ELSE Llama3Blend(f, p)

Llama3InvFreqs(c) ==
  LET inv_freqs == BaseInvFreqs(c)
  IN  IF c.scaling_params # NoParams
      THEN [k \in DOMAIN inv_freqs |-> Llama3Scale(inv_freqs[k], c.scaling_params)]
      ELSE inv_freqs

\* self._compute_inv_freqs(), dispatched on the class.
ComputeInvFreqs(c) ==
  IF c.kind = "Llama3RotaryEmbedding" THEN Llama3InvFreqs(c) ELSE BaseInvFreqs(c)

(***************************************************************************)
(* The cos/sin table.                                                      *)
(***************************************************************************)
QuarterTurns(angle) == RFloor(angle) % 4

\* ops.cos and ops.sin on the quarter-turn grid.
Cos(angle) ==
  LET q == QuarterTurns(angle)
  IN  IF q = 0 THEN 1 ELSE IF q = 2 THEN -1 ELSE 0

Sin(angle) ==
  LET q == QuarterTurns(angle)
  IN  IF q = 1 THEN 1 ELSE IF q = 3 THEN -1 ELSE 0

\* BuildTable with the positions counted from 1.
BuildTableFromOne(c) ==
  LET inv_freqs == ComputeInvFreqs(c)
      half == Len(inv_freqs)
      freqs(t, k) == RMul(RInt(t + 1), inv_freqs[k + 1])
      cis(t, k, part) == IF part = 0 THEN Cos(freqs(t, k)) ELSE Sin(freqs(t, k))
  IN  Tensor(<<c.max_seq_len * 2, half, 2>>, "float32",
             LAMBDA p : cis(p \div (2 * half), (p \div 2) % half, p % 2))

\* The build branch of freqs_cis_base: t = 0 .. 2*max_seq_len - 1,
\* freqs = outer(t, inv_freqs), stack([cos(freqs), sin(freqs)], axis=-1).
BuildTable(c) ==
  LET inv_freqs == ComputeInvFreqs(c)
      half == Len(inv_freqs)
      freqs(t, k) == RMul(RInt(t), inv_freqs[k + 1])
      cis(t, k, part) == IF part = 0 THEN Cos(freqs(t, k)) ELSE Sin(freqs(t, k))
  IN  Tensor(<<c.max_seq_len * 2, half, 2>>, "float32",
             LAMBDA p : cis(p \div (2 * half), (p \div 2) % half, p % 2))

(***************************************************************************)
(* RotaryEmbedding.__call__.                                               *)
(***************************************************************************)
\* The outcome of a call: an exception, or the returned tensor.
Raised == [raised |-> TRUE, out |-> None]
Returned(t) == [raised |-> FALSE, out |-> t]

\* Lines 107-119: the real and imaginary halves of the pairs of v.
XRe(v, interleaved) ==
  IF interleaved THEN TakeLast(AsInterleavedComplex(v), 0)
  ELSE SliceLast(v, 0, Last(v.shape) \div 2)

XIm(v, interleaved) ==
  IF interleaved THEN TakeLast(AsInterleavedComplex(v), 1)
  ELSE SliceLast(v, Last(v.shape) \div 2, Last(v.shape))

\* Lines 132-134: a slice of the flattened table back to (d0, d1 // 2, 2).
Unflatten(sliced) ==
  IF Len(sliced.shape) = 2
  THEN Reshape(sliced, <<sliced.shape[1], sliced.shape[2] \div 2, 2>>)
  ELSE sliced

\* RopeRe with the sign of the second product wrong.
RopeRePlus(x_re, x_im, freqs_re, freqs_im) ==
  Add(Mul(x_re, freqs_re), Mul(x_im, freqs_im))

\* RopeIm with the imaginary part multiplied by the sine too.
RopeImSameFreq(x_re, x_im, freqs_re, freqs_im) ==
  Add(Mul(x_re, freqs_im), Mul(x_im, freqs_im))

\* Lines 146-147.
RopeRe(x_re, x_im, freqs_re, freqs_im) ==
  Sub(Mul(x_re, freqs_re), Mul(x_im, freqs_im))

RopeIm(x_re, x_im, freqs_re, freqs_im) ==
  Add(Mul(x_re, freqs_im), Mul(x_im, freqs_re))

\* Recombine that concatenates in both layouts.
RecombineAlwaysConcat(rope_re, rope_im, interleaved) ==
  ConcatLast(rope_re, rope_im)

\* Lines 149-152.
Recombine(rope_re, rope_im, interleaved) ==
  IF interleaved THEN StackLast(rope_re, rope_im)
  ELSE ConcatLast(rope_re, rope_im)

\* Finish without the reshape.
FinishNoReshape(rope_complex, v) == Cast(rope_complex, v.dtype)

\* Line 156: reshape to the shape of v and cast to its dtype.
Finish(rope_complex, v) == Cast(Reshape(rope_complex, v.shape), v.dtype)

\* Lines 132-156: the rotation of v by a sliced table.  An elementwise op on
\* shapes that do not broadcast, and a reshape that changes the number of
\* elements, raise.
Rope(v, freqs_cis_sliced, interleaved) ==
  LET x_re == XRe(v, interleaved)
      x_im == XIm(v, interleaved)
      cast == Cast(Unflatten(freqs_cis_sliced), v.dtype)
      freqs_cis_bcast == Unsqueeze(Unsqueeze(cast, 1), 0)
      freqs_re == TakeLast(freqs_cis_bcast, 0)
      freqs_im == TakeLast(freqs_cis_bcast, 1)
      rope_complex ==
        Recombine(RopeRe(x_re, x_im, freqs_re, freqs_im),
                  RopeIm(x_re, x_im, freqs_re, freqs_im), interleaved)
  IN  IF ~Broadcastable(x_re.shape, freqs_re.shape) THEN Raised
      ELSE IF Prod(rope_complex.shape) # Prod(v.shape) THEN Raised
      ELSE Returned(Finish(rope_complex, v))

\* An Optional argument: <<>> is None, <<a>> is the value a.
NoArg == <<>>
Arg(a) == <<a>>

\* Lines 121-124: the defaults of start_pos and seq_len.
StartPos(start_pos) == IF start_pos = NoArg THEN 0 ELSE start_pos[1]

SeqLen(v, seq_len) ==
  IF seq_len = NoArg THEN v.shape[Len(v.shape) - 1] ELSE seq_len[1]

\* Lines 127-129: self.freqs_cis[start_pos : start_pos + seq_len].
Window(freqs_cis, v, start_pos, seq_len) ==
  SliceFirst(freqs_cis, StartPos(start_pos),
             StartPos(start_pos) + SeqLen(v, seq_len))

\* The slice op on the leading axis: a range that ends beyond the rows of
\* the tensor is rejected.
SliceRaises(t, lo, hi) == hi > t.shape[1]

\* Lines 105-156 once self.freqs_cis has been read.
CallOn(freqs_cis, v, start_pos, seq_len, interleaved) ==
  IF SliceRaises(freqs_cis, StartPos(start_pos),
                 StartPos(start_pos) + SeqLen(v, seq_len))
  THEN Raised
  ELSE Rope(v, Window(freqs_cis, v, start_pos, seq_len), interleaved)

(***************************************************************************)
(* State of one engine instance, of its caller and of two threads.         *)
(***************************************************************************)
VARIABLES
  cfg,         \* the dataclass fields dim, n_heads, theta, ... of the instance
  _freqs_cis,  \* the field self._freqs_cis
  cache,       \* the value cached_property stores for freqs_cis
  call,        \* the caller's __call__: its arguments and its outcome
  back,        \* the outcome of __call__ on that result at position -start_pos
  n_inv,       \* how many times _compute_inv_freqs has run
  n_table,     \* how many times the cos/sin table has been computed
  pc,          \* per thread: where it is in its first access of freqs_cis
  freqs,       \* per thread: the value the getter holds
  got,         \* per thread: the outcome of its access
  post_init,   \* the construction: "pending", "returned" or "raised"
  inv_freqs,   \* the outcome of a direct call of _compute_inv_freqs
  inv_freq,    \* the attribute self.inv_freq a Yarn engine sets
  retry,       \* one invocation of repo_exists_with_retry
  ramp_mask,   \* one invocation of _yarn_linear_ramp_mask
  again,       \* a second __call__ on the same Yarn engine
  hf_tqdm,     \* the class attribute hf_tqdm._lock and the threads using it
  pipeline     \* one construction of a PipelineConfig

vars ==
  <<cfg, _freqs_cis, cache, call, back, n_inv, n_table, pc, freqs, got,
    post_init, inv_freqs, inv_freq, retry, ramp_mask, again, hf_tqdm,
    pipeline>>

\* What the operations of the cached table leave alone.
others ==
  <<post_init, inv_freqs, inv_freq, retry, ramp_mask, again, hf_tqdm, pipeline>>

\* No thread has used hf_tqdm and the class has no _lock attribute.
NoTqdm ==
  [has_lock |-> FALSE, had_lock |-> FALSE, lock |-> 0, replaced |-> FALSE,
   at |-> <<>>]

\* No PipelineConfig is being constructed.
NoPipeline ==
  [done |-> FALSE, kwargs |-> {}, raised |-> FALSE, pipeline |-> {},
   sampling |-> {}, profiling |-> {}, model |-> {}, kv_cache |-> {}]

\* _yarn_linear_ramp_mask has not been invoked on its own.
NoRamp == [done |-> FALSE, min |-> 0, max |-> 0, dim |-> 0, out |-> <<>>]

\* repo_exists_with_retry has not been invoked.
NotInvoked ==
  [variant |-> "", disabled |-> FALSE, pc |-> "idle", attempt |-> 0,
   calls |-> 0, sleeps |-> 0, delays |-> <<>>, slept |-> <<>>,
   result |-> FALSE, error |-> "",
   last |-> [raises |-> FALSE, value |-> FALSE, class |-> "(no call)",
             has_response |-> FALSE, status |-> 0]]

Threads == {1, 2}

NoCall ==
  [done |-> FALSE, x |-> None, start_pos |-> NoArg, seq_len |-> NoArg,
   raised |-> FALSE, out |-> None]

NoOutcome == [done |-> FALSE, raised |-> FALSE, out |-> None]

Outcome(r) == [done |-> TRUE, raised |-> r.raised, out |-> r.out]

\* The (batch, seq_len, n_kv_heads) of the activations.
Cells ==
  { bsh \in (1..MaxCells) \X (1..MaxCells) \X (1..MaxCells) :
      bsh[1] * bsh[2] * bsh[3] <= MaxCells }

\* Activations of shape (batch, seq_len, n_kv_heads, head_dim), with
\* pairwise different elements.
Activations(c) ==
  { [shape |-> <<bsh[1], bsh[2], bsh[3], HeadDim(c)>>, dtype |-> d,
     data |-> [k \in 1..(bsh[1] * bsh[2] * bsh[3] * HeadDim(c)) |-> k]] :
      bsh \in Cells, d \in DTypes }

StartArgs(c) == {NoArg} \cup {Arg(p) : p \in 0..(2 * c.max_seq_len - 1)}

SeqArgs(c) == {NoArg} \cup {Arg(n) : n \in 1..(2 * c.max_seq_len)}

\* The instance after construction: nothing built, nothing cached.
Constructed ==
  /\ cfg \in Configs
  /\ _freqs_cis = None
  /\ cache = None
  /\ n_inv = 0
  /\ n_table = 0
  /\ call = NoCall
  /\ back = NoOutcome
  /\ freqs = [t \in Threads |-> None]
  /\ got = [t \in Threads |-> NoOutcome]
  /\ post_init = "returned"
  /\ inv_freqs = NoOutcome
  /\ inv_freq = None
  /\ again = NoCall
  /\ retry = NotInvoked
  /\ ramp_mask = NoRamp
  /\ hf_tqdm = NoTqdm
  /\ pipeline = NoPipeline

\* One caller, no threads.
Init == Constructed /\ pc = [t \in Threads |-> "idle"]

(***************************************************************************)
(* freqs_cis_base and the cached property freqs_cis, run to completion.    *)
(***************************************************************************)
\* MustBuild without the test: every call rebuilds.
MustBuildAlways(field) == TRUE

\* Line 68: the test that guards the build.
MustBuild(field) == field = None

\* Lines 68-81: the value of self._freqs_cis when freqs_cis_base returns,
\* which is the value it returns.
AfterBase(field) == IF MustBuild(field) THEN BuildTable(cfg) ELSE field

Builds(field) == IF MustBuild(field) THEN 1 ELSE 0

\* The classes whose freqs_cis is OptimizedRotaryEmbedding.freqs_cis.
Flattens ==
  cfg.kind \in {"OptimizedRotaryEmbedding", "Llama3RotaryEmbedding"}

\* Line 168 of OptimizedRotaryEmbedding.freqs_cis: d1, d2, d3 = freqs.shape
\* raises unless freqs has three axes.
GetterRaises(base) == Flattens /\ Len(base.shape) # 3

\* GetterValue with the first two axes merged instead of the last two.
GetterValueLeading(base) ==
  IF ~Flattens THEN base
  ELSE Reshape(base, <<base.shape[1] * base.shape[2], base.shape[3]>>)

\* Lines 85 and 167-170: what the getter assigns to self._freqs_cis and
\* returns, given what freqs_cis_base returned.
GetterValue(base) ==
  IF ~Flattens THEN base
  ELSE Reshape(base, <<base.shape[1], base.shape[2] * base.shape[3]>>)

\* cached_property: the getter runs when no value is stored.
CacheMiss == cache = None

PropertyRaises == CacheMiss /\ GetterRaises(AfterBase(_freqs_cis))

PropertyValue ==
  IF CacheMiss THEN GetterValue(AfterBase(_freqs_cis)) ELSE cache

\* The effect of evaluating self.freqs_cis on the instance.
ReadProperty ==
  IF CacheMiss
  THEN /\ _freqs_cis' = IF PropertyRaises THEN AfterBase(_freqs_cis)
                                          ELSE PropertyValue
       /\ cache' = IF PropertyRaises THEN cache ELSE PropertyValue
       /\ n_table' = n_table + Builds(_freqs_cis)
       /\ n_inv' = n_inv + Builds(_freqs_cis)
  ELSE UNCHANGED <<_freqs_cis, cache, n_table, n_inv>>

\* A call of freqs_cis_base().
FreqsCisBase ==
  /\ _freqs_cis' = AfterBase(_freqs_cis)
  /\ n_table' = n_table + Builds(_freqs_cis)
  /\ n_inv' = n_inv + Builds(_freqs_cis)
  /\ UNCHANGED <<cfg, cache, call, back, pc, freqs, got, others>>

\* An access of the property freqs_cis.
FreqsCis ==
  /\ ReadProperty
  /\ UNCHANGED <<cfg, call, back, pc, freqs, got, others>>

\* __call__(x, start_pos, seq_len).  A behaviour holds one such call, at any
\* point among the accesses of freqs_cis_base and freqs_cis: a second call
\* would find the instance in a state that an access of freqs_cis followed
\* by that call reaches too.
Call(x, start_pos, seq_len) ==
  /\ ~call.done
  /\ ReadProperty
  /\ LET r == IF PropertyRaises THEN Raised
              ELSE CallOn(PropertyValue, x, start_pos, seq_len, cfg.interleaved)
     IN  call' = [done |-> TRUE, x |-> x, start_pos |-> start_pos,
                  seq_len |-> seq_len, raised |-> r.raised, out |-> r.out]
  /\ UNCHANGED <<cfg, back, pc, freqs, got, others>>

\* __call__ on the result of the call with start_pos = -p, p > 0 the start
\* of that call.  The table has no row -p: a slice with a negative start
\* either counts from the end of the table (rows 2*max_seq_len - p onwards,
\* when the window ends before the end) or is rejected.
CallBack ==
  /\ call.done /\ ~call.raised /\ ~back.done
  /\ StartPos(call.start_pos) > 0
  /\ LET p == StartPos(call.start_pos)
         n == SeqLen(call.out, call.seq_len)
         rows == 2 * cfg.max_seq_len
         wrapped == Rope(call.out, SliceFirst(PropertyValue, rows - p, rows - p + n),
                         cfg.interleaved)
     IN  \E r \in (IF n < p THEN {wrapped} ELSE {}) \cup {Raised} :
           back' = Outcome(r)
  /\ ReadProperty
  /\ UNCHANGED <<cfg, call, pc, freqs, got, others>>

Next ==
  \/ FreqsCisBase
  \/ FreqsCis
  \/ \E x \in Activations(cfg), start_pos \in StartArgs(cfg), seq_len \in SeqArgs(cfg) :
       Call(x, start_pos, seq_len)
  \/ CallBack

Spec == Init /\ [][Next]_vars

(***************************************************************************)
(* Two threads, each making its first access of freqs_cis.  cached_property*)
(* takes no lock: a thread may be preempted between any two statements.    *)
(***************************************************************************)
InitRace == Constructed /\ pc = [t \in Threads |-> "lookup"]

Goto(t, label) == pc' = [pc EXCEPT ![t] = label]

\* cached_property.__get__: the lookup of the stored value.
Lookup(t) ==
  /\ pc[t] = "lookup"
  /\ IF CacheMiss
     THEN Goto(t, "test") /\ UNCHANGED got
     ELSE Goto(t, "done") /\ got' = [got EXCEPT ![t] = Outcome(Returned(cache))]
  /\ UNCHANGED <<cfg, _freqs_cis, cache, call, back, n_inv, n_table, freqs, others>>

\* Line 68 of freqs_cis_base, called from the getter.
Test(t) ==
  /\ pc[t] = "test"
  /\ IF MustBuild(_freqs_cis) THEN Goto(t, "build") ELSE Goto(t, "return")
  /\ UNCHANGED <<cfg, _freqs_cis, cache, call, back, n_inv, n_table, freqs, got, others>>

\* Lines 69-80: the build and the assignment of self._freqs_cis.
Build(t) ==
  /\ pc[t] = "build"
  /\ _freqs_cis' = BuildTable(cfg)
  /\ n_table' = n_table + 1
  /\ n_inv' = n_inv + 1
  /\ Goto(t, "return")
  /\ UNCHANGED <<cfg, cache, call, back, freqs, got, others>>

\* Line 81: return TensorValue(self._freqs_cis).
Return(t) ==
  /\ pc[t] = "return"
  /\ freqs' = [freqs EXCEPT ![t] = _freqs_cis]
  /\ Goto(t, "getter")
  /\ UNCHANGED <<cfg, _freqs_cis, cache, call, back, n_inv, n_table, got, others>>

\* Line 85, or lines 168-170: the getter's assignment of self._freqs_cis.
Getter(t) ==
  /\ pc[t] = "getter"
  /\ IF GetterRaises(freqs[t])
     THEN /\ got' = [got EXCEPT ![t] = Outcome(Raised)]
          /\ Goto(t, "done")
          /\ UNCHANGED <<_freqs_cis, freqs>>
     ELSE /\ _freqs_cis' = GetterValue(freqs[t])
          /\ freqs' = [freqs EXCEPT ![t] = GetterValue(freqs[t])]
          /\ Goto(t, "store")
          /\ UNCHANGED got
  /\ UNCHANGED <<cfg, cache, call, back, n_inv, n_table, others>>

\* cached_property.__get__: the value is stored and returned.
Store(t) ==
  /\ pc[t] = "store"
  /\ cache' = freqs[t]
  /\ got' = [got EXCEPT ![t] = Outcome(Returned(freqs[t]))]
  /\ Goto(t, "done")
  /\ UNCHANGED <<cfg, _freqs_cis, call, back, n_inv, n_table, freqs, others>>

NextRace ==
  \E t \in Threads :
    \/ Lookup(t)
    \/ Test(t)
    \/ Build(t)
    \/ Return(t)
    \/ Getter(t)
    \/ Store(t)

SpecRace == InitRace /\ [][NextRace]_vars

(***************************************************************************)
(* Construction and a direct call of _compute_inv_freqs, for any values of *)
(* the dataclass fields.                                                   *)
(***************************************************************************)
AllKinds == Kinds \cup {"DeepseekYarnRotaryEmbedding"}

AllThetas == {1, 4, 16, 64}

Dims == {2, 3, 4, 6}

HeadCounts == {1, 2, 3}

AllScalingParams ==
  [factor : {1, 2, 8}, low_freq_factor : {1, 2, 4}, high_freq_factor : {1, 2, 4},
   orig_max_position : {32, 64, 8192}]

\* The configurations on which theta ** (iota / n) is a rational the model
\* computes exactly.
ExactRoot(c) ==
  \/ HeadDim(c) < 2
  \/ \E r \in 1..c.theta : Pow(r, HeadDim(c) \div 2) = c.theta

\* Any values of the fields: the dataclass declares no relation between them.
AnyConfigs ==
  { c \in [kind : AllKinds, dim : Dims, n_heads : HeadCounts,
           theta : AllThetas, max_seq_len : {MaxSeqLen},
           interleaved : BOOLEAN,
           scaling_params : {NoParams} \cup AllScalingParams] :
      /\ ExactRoot(c)
      /\ c.kind # "Llama3RotaryEmbedding" => c.scaling_params = NoParams }

\* The fields are set and __post_init__ has not run yet.
InitFreqs ==
  /\ cfg \in AnyConfigs
  /\ post_init = "pending"
  /\ _freqs_cis = None
  /\ cache = None
  /\ n_inv = 0
  /\ n_table = 0
  /\ call = NoCall
  /\ back = NoOutcome
  /\ pc = [t \in Threads |-> "idle"]
  /\ freqs = [t \in Threads |-> None]
  /\ got = [t \in Threads |-> NoOutcome]
  /\ inv_freqs = NoOutcome
  /\ inv_freq = None
  /\ again = NoCall
  /\ retry = NotInvoked
  /\ ramp_mask = NoRamp
  /\ hf_tqdm = NoTqdm
  /\ pipeline = NoPipeline

\* Lines 41-42: __post_init__ calls Module.__init__ and returns; it reads
\* no field.
PostInit ==
  /\ post_init = "pending"
  /\ post_init' = "returned"
  /\ UNCHANGED <<cfg, _freqs_cis, cache, call, back, n_inv, n_table, pc,
                 freqs, got, inv_freqs, inv_freq, retry, ramp_mask, again,
                 hf_tqdm, pipeline>>

\* self._compute_inv_freqs() on the constructed instance.
ComputeInvFreqsCall ==
  /\ post_init = "returned"
  /\ ~inv_freqs.done
  /\ inv_freqs' = Outcome(Returned(ComputeInvFreqs(cfg)))
  /\ n_inv' = n_inv + 1
  /\ UNCHANGED <<cfg, _freqs_cis, cache, call, back, n_table, pc, freqs, got,
                 post_init, inv_freq, retry, ramp_mask, again, hf_tqdm,
                 pipeline>>

NextFreqs ==
  \/ PostInit
  \/ ComputeInvFreqsCall

SpecFreqs == InitFreqs /\ [][NextFreqs]_vars

(***************************************************************************)
(* DeepseekYarnRotaryEmbedding.  math.log and ops.log are measured in      *)
(* units of ln 2, on arguments that are powers of 2.                       *)
(***************************************************************************)
Min2(a, b) == IF a <= b THEN a ELSE b

RLeq(p, q) == p[1] * q[2] <= q[1] * p[2]

\* The logarithm of a power of 2.
Ln(y) ==
  RInt(CHOOSE e \in (0 - 12)..12 :
         IF e >= 0 THEN y = RInt(Pow(2, e)) ELSE y = Rat(1, Pow(2, 0 - e)))

\* scaling_params = None is NoParams; DeepseekYarnRopeScalingParams instances.
YarnScalingParams ==
  [scaling_factor : {1, 2}, original_max_position_embeddings : {16, 64},
   beta_fast : {2, 8}, beta_slow : {1, 4}, mscale : {1, 2},
   mscale_all_dim : {1}]

\* The engines whose theta ** (range_output / dim) and whose inherited table
\* the model computes exactly.  No operation of these engines reads
\* interleaved.
YarnConfigs ==
  { c \in [kind : {"DeepseekYarnRotaryEmbedding"}, dim : {2, 4, 8},
           n_heads : {1}, theta : {4, 16}, max_seq_len : {MaxSeqLen},
           interleaved : {TRUE},
           scaling_params : {NoParams} \cup YarnScalingParams] :
      \E r \in 1..c.theta : Pow(r, c.dim \div 2) = c.theta }

\* Lines 335-350.
YarnGetMscale(scale, mscale) ==
  IF scale <= 1 THEN RInt(1)
  ELSE RAdd(RMul(RMul(Rat(1, 10), RInt(mscale)), Ln(RInt(scale))), RInt(1))

\* log(2 * math.pi) in units of ln 2, to four decimals.
LnTwoPi == Rat(26515, 10000)

\* Lines 383-408; log(max_pos / (num_rotations * 2 * pi)) is taken as
\* log(max_pos / num_rotations) - log(2 * pi).
YarnFindCorrectionDim(num_rotations, dim, base, max_position_embeddings) ==
  RDiv(RMul(RInt(dim),
            RSub(Ln(RDiv(RInt(max_position_embeddings), RInt(num_rotations))),
                 LnTwoPi)),
       RMul(RInt(2), Ln(RInt(base))))

\* Lines 352-380: <<low, high>>.
YarnFindCorrectionRange(low_rot, high_rot, dim, base, max_position_embeddings) ==
  LET low == RFloor(YarnFindCorrectionDim(low_rot, dim, base,
                                          max_position_embeddings))
      high == RFloor(YarnFindCorrectionDim(high_rot, dim, base,
                                           max_position_embeddings))
  IN  <<Max2(low, 0), Min2(high, dim - 1)>>

\* Line 421: the truth value of min == max on two scalar tensor values is
\* that of the comparison of their values.
TensorValuesEqual(a, b) == a = b

\* YarnLinearRampMask without the nudge of lines 421-422.
YarnLinearRampMaskNoNudge(min, max, dim) ==
  LET top == RInt(max)
      linear_func(j) == RDiv(RSub(RInt(j), RInt(min)), RSub(top, RInt(min)))
      clamp(v) == IF RLess(v, RInt(0)) THEN RInt(0)
                  ELSE IF RLess(RInt(1), v) THEN RInt(1) ELSE v
  IN  [k \in 1..dim |-> clamp(linear_func(k - 1))]

\* Lines 410-431: the ramp over 0 .. dim - 1, clamped to [0, 1].
YarnLinearRampMask(min, max, dim) ==
  LET top == IF TensorValuesEqual(min, max)
             THEN RAdd(RInt(max), Rat(1, 1000)) ELSE RInt(max)
      linear_func(j) == RDiv(RSub(RInt(j), RInt(min)), RSub(top, RInt(min)))
      clamp(v) == IF RLess(v, RInt(0)) THEN RInt(0)
                  ELSE IF RLess(RInt(1), v) THEN RInt(1) ELSE v
  IN  [k \in 1..dim |-> clamp(linear_func(k - 1))]

\* Lines 292-298: low, high = self._yarn_find_correction_range(beta_fast,
\* beta_slow, self.dim, int(self.theta), original_max_position_embeddings).
YarnRange(c) ==
  YarnFindCorrectionRange(c.scaling_params.beta_fast, c.scaling_params.beta_slow,
                          c.dim, c.theta,
                          c.scaling_params.original_max_position_embeddings)

\* YarnInvFreq with the mask of line 301 not inverted.
YarnInvFreqMaskNotInverted(c) ==
  LET p == c.scaling_params
      dim == c.dim \div 2
      freq_base(k) == RInt(ThetaPow(c.theta, 2 * (k - 1), c.dim))
      freq_extra(k) == RDiv(RInt(1), freq_base(k))
      freq_inter(k) == RDiv(RInt(1), RMul(RInt(p.scaling_factor), freq_base(k)))
      range == YarnRange(c)
      ramp == YarnLinearRampMask(range[1], range[2], dim)
      inv_freq_mask(k) == ramp[k]
  IN  [k \in 1..dim |->
         RAdd(RMul(freq_inter(k), RSub(RInt(1), inv_freq_mask(k))),
              RMul(freq_extra(k), inv_freq_mask(k)))]

\* Lines 280-308: inv_freq.
YarnInvFreq(c) ==
  LET p == c.scaling_params
      dim == c.dim \div 2
      freq_base(k) == RInt(ThetaPow(c.theta, 2 * (k - 1), c.dim))
      freq_extra(k) == RDiv(RInt(1), freq_base(k))
      freq_inter(k) == RDiv(RInt(1), RMul(RInt(p.scaling_factor), freq_base(k)))
      range == YarnRange(c)
      ramp == YarnLinearRampMask(range[1], range[2], dim)
      inv_freq_mask(k) == RSub(RInt(1), ramp[k])
  IN  [k \in 1..dim |->
         RAdd(RMul(freq_inter(k), RSub(RInt(1), inv_freq_mask(k))),
              RMul(freq_extra(k), inv_freq_mask(k)))]

\* Lines 319-327.
YarnMscale(c) ==
  RDiv(YarnGetMscale(c.scaling_params.scaling_factor, c.scaling_params.mscale),
       YarnGetMscale(c.scaling_params.scaling_factor,
                     c.scaling_params.mscale_all_dim))

\* Lines 312-317: freqs = outer(t, inv_freq), t = 0 .. seq_len - 1.
YarnFreqs(inv, seq_len) ==
  Tensor(<<seq_len, Len(inv)>>, "float32",
         LAMBDA p : RMul(RInt(p \div Len(inv)), inv[(p % Len(inv)) + 1]))

\* YarnEmb with every frequency repeated next to itself.
YarnEmbInterleaved(freqs_) ==
  Reshape(StackLast(freqs_, freqs_), <<freqs_.shape[1], 2 * freqs_.shape[2]>>)

\* Line 329: emb = ops.concat((freqs, freqs), axis=-1).
YarnEmb(freqs_) == ConcatLast(freqs_, freqs_)

\* Lines 330-331: ops.cos(emb) * _mscale and ops.sin(emb) * _mscale.
YarnCos(emb, mscale) ==
  Tensor(emb.shape, "float32", LAMBDA p : RMul(RInt(Cos(El(emb, p))), mscale))

YarnSin(emb, mscale) ==
  Tensor(emb.shape, "float32", LAMBDA p : RMul(RInt(Sin(El(emb, p))), mscale))

\* ops.stack([a, b], axis=0): a new leading axis of length 2.
StackFirst(a, b) ==
  Tensor(<<2>> \o a.shape, a.dtype,
         LAMBDA p : IF p < Prod(a.shape) THEN El(a, p)
                    ELSE El(b, p - Prod(a.shape)))

\* YarnTables with the number of rows taken from the first element of x.
YarnTablesFromValues(c, x) ==
  LET emb == YarnEmb(YarnFreqs(YarnInvFreq(c), 1 + (x.data[1] % 2)))
  IN  StackFirst(YarnCos(emb, YarnMscale(c)), YarnSin(emb, YarnMscale(c)))

\* Lines 270 and 332: the stack of the two tables for an activation x.
YarnTables(c, x) ==
  LET emb == YarnEmb(YarnFreqs(YarnInvFreq(c), x.shape[Len(x.shape) - 1]))
  IN  StackFirst(YarnCos(emb, YarnMscale(c)), YarnSin(emb, YarnMscale(c)))

\* Line 275.
YarnParamsMissing(c) == c.scaling_params = NoParams

\* Lines 263-276: the outcome of __call__, given the stack of the tables.
YarnOutcome(c, stacked) ==
  IF YarnParamsMissing(c) THEN Raised ELSE Returned(stacked)

\* YarnFreqsCisAfter that clears the field when the call fails.
YarnFreqsCisAfterReset(c, stacked, field) ==
  IF YarnParamsMissing(c) THEN None ELSE stacked

\* Lines 275-276 and 332: self._freqs_cis after __call__.
YarnFreqsCisAfter(c, stacked, field) ==
  IF YarnParamsMissing(c) THEN field ELSE stacked

\* Lines 275-276 and 310: self.inv_freq after __call__.
YarnInvFreqAfter(c, field) ==
  IF YarnParamsMissing(c) THEN field ELSE YarnInvFreq(c)

YarnBuilds(c) == IF YarnParamsMissing(c) THEN 0 ELSE 1

YarnStartArgs == {NoArg, Arg(1)}

YarnSeqArgs == {NoArg, Arg(1)}

InitYarn ==
  /\ cfg \in YarnConfigs
  /\ post_init = "returned"
  /\ _freqs_cis = None
  /\ cache = None
  /\ n_inv = 0
  /\ n_table = 0
  /\ call = NoCall
  /\ back = NoOutcome
  /\ pc = [t \in Threads |-> "idle"]
  /\ freqs = [t \in Threads |-> None]
  /\ got = [t \in Threads |-> NoOutcome]
  /\ inv_freqs = NoOutcome
  /\ inv_freq = None
  /\ again = NoCall
  /\ retry = NotInvoked
  /\ ramp_mask = NoRamp
  /\ hf_tqdm = NoTqdm
  /\ pipeline = NoPipeline

\* DeepseekYarnRotaryEmbedding.__call__(x, start_pos, seq_len), once in a
\* behaviour, at any point among the accesses of the inherited
\* freqs_cis_base and freqs_cis.
YarnCall(x, start_pos, seq_len) ==
  /\ ~call.done
  /\ LET stacked == YarnTables(cfg, x)
     IN  /\ call' = [done |-> TRUE, x |-> x, start_pos |-> start_pos,
                     seq_len |-> seq_len,
                     raised |-> YarnOutcome(cfg, stacked).raised,
                     out |-> YarnOutcome(cfg, stacked).out]
         /\ _freqs_cis' = YarnFreqsCisAfter(cfg, stacked, _freqs_cis)
  /\ inv_freq' = YarnInvFreqAfter(cfg, inv_freq)
  /\ n_inv' = n_inv + YarnBuilds(cfg)
  /\ n_table' = n_table + YarnBuilds(cfg)
  /\ UNCHANGED <<cfg, cache, back, pc, freqs, got, post_init, inv_freqs,
                 retry, ramp_mask, again, hf_tqdm, pipeline>>

\* freqs_cis_base() of the parent class, before the Yarn call.
YarnFreqsCisBase ==
  /\ ~call.done
  /\ _freqs_cis' = AfterBase(_freqs_cis)
  /\ n_table' = n_table + Builds(_freqs_cis)
  /\ n_inv' = n_inv + Builds(_freqs_cis)
  /\ UNCHANGED <<cfg, cache, call, back, pc, freqs, got, others>>

NextYarn ==
  \/ YarnFreqsCisBase
  \/ \E x \in Activations(cfg), start_pos \in YarnStartArgs, seq_len \in YarnSeqArgs :
       YarnCall(x, start_pos, seq_len)

SpecYarn == InitYarn /\ [][NextYarn]_vars

(***************************************************************************)
(* Two calls of one Yarn engine on activations of one shape and dtype.     *)
(***************************************************************************)
YarnTwiceConfigs ==
  { c \in YarnConfigs :
      \/ c.scaling_params = NoParams
      \/ /\ c.scaling_params.mscale = 1
         /\ c.scaling_params.beta_slow = 1
         /\ c.scaling_params.original_max_position_embeddings = 64 }

\* The activations that differ from x in their element values only.
SameButValues(x) ==
  { [x EXCEPT !.data = [k \in 1..Len(x.data) |-> x.data[k] + d]] : d \in {0, 1, 7} }

InitYarnTwice == InitYarn /\ cfg \in YarnTwiceConfigs

\* A second DeepseekYarnRotaryEmbedding.__call__(x, start_pos, seq_len) on
\* the same instance.
YarnCallAgain(x, start_pos, seq_len) ==
  /\ call.done
  /\ ~again.done
  /\ LET stacked == YarnTables(cfg, x)
     IN  /\ again' = [done |-> TRUE, x |-> x, start_pos |-> start_pos,
                      seq_len |-> seq_len,
                      raised |-> YarnOutcome(cfg, stacked).raised,
                      out |-> YarnOutcome(cfg, stacked).out]
         /\ _freqs_cis' = YarnFreqsCisAfter(cfg, stacked, _freqs_cis)
  /\ inv_freq' = YarnInvFreqAfter(cfg, inv_freq)
  /\ n_inv' = n_inv + YarnBuilds(cfg)
  /\ n_table' = n_table + YarnBuilds(cfg)
  /\ UNCHANGED <<cfg, cache, call, back, pc, freqs, got, post_init, inv_freqs,
                 retry, ramp_mask, hf_tqdm, pipeline>>

NextYarnTwice ==
  \/ \E x \in Activations(cfg), start_pos \in YarnStartArgs, seq_len \in YarnSeqArgs :
       YarnCall(x, start_pos, seq_len)
  \/ \E x \in SameButValues(call.x), start_pos \in YarnStartArgs,
        seq_len \in YarnSeqArgs :
       YarnCallAgain(x, start_pos, seq_len)

SpecYarnTwice == InitYarnTwice /\ [][NextYarnTwice]_vars

(***************************************************************************)
(* repo_exists_with_retry, defined in pipelines/hf_utils.py (188-239) and  *)
(* in pipelines/max_config.py (441-483).  Delays are in quarter seconds.   *)
(***************************************************************************)
max_attempts == 5

RetryVariants == {"hf_utils", "max_config"}

\* random.uniform(-0.25, 0.25), in quarters.
Jitters == {0 - 1, 0, 1}

\* base_delays = [2**i for i in range(max_attempts)], each times
\* (1 + random.uniform(-0.25, 0.25)).
RetryDelays(jitter) ==
  [i \in 1..max_attempts |-> (2 ^ (i - 1)) * (4 + jitter[i])]

\* The errors of the first except clause.
ForwardedErrors ==
  {"RepositoryNotFoundError", "GatedRepoError", "RevisionNotFoundError",
   "EntryNotFoundError"}

\* The classes of the second except clause.
TransientErrors == {"HfHubHTTPError", "RequestsConnectionError"}

\* What one call of huggingface_hub.repo_exists can do: return a bool, or
\* raise; an HTTP error carries a response with a status code, a
\* connection error may carry none.
RepoExistsOutcomes ==
  {[raises |-> FALSE, value |-> b, class |-> "", has_response |-> FALSE,
    status |-> 0] : b \in BOOLEAN}
  \cup
  {[raises |-> TRUE, value |-> FALSE, class |-> c, has_response |-> FALSE,
    status |-> 0] : c \in ForwardedErrors \cup {"HFValidationError"}}
  \cup
  {[raises |-> TRUE, value |-> FALSE, class |-> "HfHubHTTPError",
    has_response |-> TRUE, status |-> st] : st \in {429, 503}}
  \cup
  {[raises |-> TRUE, value |-> FALSE, class |-> "RequestsConnectionError",
    has_response |-> FALSE, status |-> 0]}

\* if attempt == max_attempts - 1 (attempt counts from 0).
IsLastAttemptOffByOne(attempt) == attempt = max_attempts

IsLastAttempt(attempt) == attempt = max_attempts - 1

\* Handle with GatedRepoError, a subclass of HfHubHTTPError, caught by the
\* second except clause.
HandleGatedAsTransient(variant, attempt, o) ==
  IF ~o.raises THEN [do |-> "return", error |-> ""]
  ELSE IF o.class \in ForwardedErrors \ {"GatedRepoError"}
         THEN [do |-> "raise", error |-> o.class]
  ELSE IF o.class \notin TransientErrors \cup {"GatedRepoError"}
         THEN [do |-> "raise", error |-> o.class]
  ELSE IF variant = "hf_utils" /\ ~o.has_response
         THEN [do |-> "raise", error |-> "AttributeError"]
  ELSE IF variant = "hf_utils" /\ o.status = 429
         THEN [do |-> "raise", error |-> o.class]
  ELSE IF IsLastAttempt(attempt) THEN [do |-> "raise", error |-> o.class]
  ELSE [do |-> "sleep", error |-> o.class]

\* The try statement of one loop iteration: what the function does with
\* the outcome o of the call on the given attempt, and the exception it
\* lets out.
Handle(variant, attempt, o) ==
  IF ~o.raises THEN [do |-> "return", error |-> ""]
  ELSE IF o.class \in ForwardedErrors THEN [do |-> "raise", error |-> o.class]
  ELSE IF o.class \notin TransientErrors THEN [do |-> "raise", error |-> o.class]
  ELSE IF variant = "hf_utils" /\ ~o.has_response
         THEN [do |-> "raise", error |-> "AttributeError"]
  ELSE IF variant = "hf_utils" /\ o.status = 429
         THEN [do |-> "raise", error |-> o.class]
  ELSE IF IsLastAttempt(attempt) THEN [do |-> "raise", error |-> o.class]
  ELSE [do |-> "sleep", error |-> o.class]

\* No rotary embedding is involved.
NoEngine ==
  /\ cfg = None
  /\ post_init = "returned"
  /\ _freqs_cis = None
  /\ cache = None
  /\ n_inv = 0
  /\ n_table = 0
  /\ call = NoCall
  /\ back = NoOutcome
  /\ pc = [t \in Threads |-> "idle"]
  /\ freqs = [t \in Threads |-> None]
  /\ got = [t \in Threads |-> NoOutcome]
  /\ inv_freqs = NoOutcome
  /\ inv_freq = None
  /\ again = NoCall

InitRetry ==
  /\ NoEngine
  /\ ramp_mask = NoRamp
  /\ hf_tqdm = NoTqdm
  /\ pipeline = NoPipeline
  /\ retry \in {[NotInvoked EXCEPT !.variant = v, !.disabled = d] :
                  v \in RetryVariants, d \in BOOLEAN}

engine ==
  <<cfg, _freqs_cis, cache, call, back, n_inv, n_table, pc, freqs, got,
    post_init, inv_freqs, inv_freq, again>>

\* Entry: hf_utils returns True when MODULAR_DISABLE_HF_NETWORK_ACCESS is
\* set; otherwise the delays are drawn and the loop starts.
RetryEnter(jitter) ==
  /\ retry.pc = "idle"
  /\ retry' =
       IF retry.variant = "hf_utils" /\ retry.disabled
       THEN [retry EXCEPT !.pc = "returned", !.result = TRUE]
       ELSE [retry EXCEPT !.pc = "loop", !.delays = RetryDelays(jitter)]
  /\ UNCHANGED <<engine, ramp_mask, hf_tqdm, pipeline>>

\* One iteration up to its return, raise or sleep: the call of
\* huggingface_hub.repo_exists with outcome o, and its except clauses.
RetryAttempt(o) ==
  /\ retry.pc = "loop"
  /\ LET h == Handle(retry.variant, retry.attempt, o)
     IN  retry' =
           [retry EXCEPT !.calls = @ + 1,
                         !.pc = CASE h.do = "return" -> "returned"
                                  [] h.do = "raise" -> "raised"
                                  [] OTHER -> "sleeping",
                         !.result = o.value,
                         !.error = h.error,
                         !.last = o]
  /\ UNCHANGED <<engine, ramp_mask, hf_tqdm, pipeline>>

\* time.sleep(delay_in_seconds), then the next item of the loop, or the
\* statement after the loop when there is none.
RetrySleep ==
  /\ retry.pc = "sleeping"
  /\ retry' =
       [retry EXCEPT !.sleeps = @ + 1,
                     !.slept = Append(@, retry.delays[retry.attempt + 1]),
                     !.attempt = @ + 1,
                     !.pc = IF retry.attempt + 1 < max_attempts
                              THEN "loop" ELSE "assert_false"]
  /\ UNCHANGED <<engine, ramp_mask, hf_tqdm, pipeline>>

NextRetry ==
  \/ \E jitter \in [1..max_attempts -> Jitters] : RetryEnter(jitter)
  \/ \E o \in RepoExistsOutcomes : RetryAttempt(o)
  \/ RetrySleep

\* The function runs in its caller's thread: an enabled step is taken.
SpecRetry == InitRetry /\ [][NextRetry]_vars /\ WF_vars(NextRetry)

(***************************************************************************)
(* _yarn_linear_ramp_mask on its own, for any bounds and length.           *)
(***************************************************************************)
RampMins == 0..4

RampMaxs == (0 - 1)..5

RampDims == 1..5

InitRamp ==
  /\ NoEngine
  /\ retry = NotInvoked
  /\ hf_tqdm = NoTqdm
  /\ pipeline = NoPipeline
  /\ ramp_mask \in {[NoRamp EXCEPT !.min = lo, !.max = hi, !.dim = n] :
                 lo \in RampMins, hi \in RampMaxs, n \in RampDims}

\* self._yarn_linear_ramp_mask(min, max, dim).
RampCall ==
  /\ ~ramp_mask.done
  /\ ramp_mask' =
       [ramp_mask EXCEPT
          !.done = TRUE,
          !.out = YarnLinearRampMask(ramp_mask.min, ramp_mask.max, ramp_mask.dim)]
  /\ UNCHANGED <<engine, retry, hf_tqdm, pipeline>>

NextRamp == RampCall

SpecRamp == InitRamp /\ [][NextRamp]_vars

(***************************************************************************)
(* _hf_tqdm_using_threading_only_lock (hf_utils.py 94-120) used by several  *)
(* threads, as in `with _hf_tqdm_using_threading_only_lock(): ...` of       *)
(* download_weight_files.  hf_tqdm.lock is 0 when the class has no _lock,  *)
(* the thread's number for the _ThreadingOnlyTqdmLock it created, and      *)
(* ExistingLock for a lock that was there before.                          *)
(***************************************************************************)
Users == {1, 2, 3}

ExistingLock == 0 - 1

InitLock ==
  /\ NoEngine
  /\ retry = NotInvoked
  /\ ramp_mask = NoRamp
  /\ pipeline = NoPipeline
  /\ hf_tqdm \in {[NoTqdm EXCEPT !.has_lock = had, !.had_lock = had,
                                 !.lock = IF had THEN ExistingLock ELSE 0,
                                 !.at = [t \in Users |-> "outside"]] :
                    had \in BOOLEAN}

apart == <<engine, retry, ramp_mask, pipeline>>

\* Line 113: if hasattr(hf_tqdm, "_lock"), followed by the yield of line
\* 114 when it has one.
TestLock(t) ==
  /\ hf_tqdm.at[t] = "outside"
  /\ hf_tqdm' = [hf_tqdm EXCEPT
                   !.at[t] = IF hf_tqdm.has_lock THEN "guest" ELSE "tested"]
  /\ UNCHANGED apart

\* Line 116: setattr(hf_tqdm, "_lock", _ThreadingOnlyTqdmLock()), followed
\* by the yield of line 118.
SetLock(t) ==
  /\ hf_tqdm.at[t] = "tested"
  /\ hf_tqdm' = [hf_tqdm EXCEPT !.at[t] = "owner",
                                !.replaced = @ \/ hf_tqdm.has_lock,
                                !.has_lock = TRUE,
                                !.lock = t]
  /\ UNCHANGED apart

\* The body ends, normally or by an exception, in a context that found a
\* lock: line 115 returns.
LeaveGuest(t, how) ==
  /\ hf_tqdm.at[t] = "guest"
  /\ hf_tqdm' = [hf_tqdm EXCEPT !.at[t] = how]
  /\ UNCHANGED apart

\* The body ends, normally or by an exception, in a context that set the
\* lock: line 120, delattr(hf_tqdm, "_lock"), which raises AttributeError
\* when the class has no such attribute.
LeaveOwner(t, how) ==
  /\ hf_tqdm.at[t] = "owner"
  /\ hf_tqdm' = IF hf_tqdm.has_lock
                THEN [hf_tqdm EXCEPT !.at[t] = how, !.has_lock = FALSE,
                                     !.lock = 0]
                ELSE [hf_tqdm EXCEPT !.at[t] = "exit raised"]
  /\ UNCHANGED apart

BodyEnds == {"exited", "exited by exception"}

NextLock ==
  \/ \E t \in Users : TestLock(t)
  \/ \E t \in Users : SetLock(t)
  \/ \E t \in Users, how \in BodyEnds : LeaveGuest(t, how)
  \/ \E t \in Users, how \in BodyEnds : LeaveOwner(t, how)

SpecLock == InitLock /\ [][NextLock]_vars

(***************************************************************************)
(* PipelineConfig.__init__ (config.py 128-193): which config its keyword   *)
(* arguments are applied to.  Only the keys matter.                        *)
(***************************************************************************)
\* __dataclass_fields__ of the five classes, two fields of each (the one
\* field of ProfilingConfig), and a key no class declares.
FieldsOf ==
  [PipelineConfig |-> {"max_length", "draft_model"},
   SamplingConfig |-> {"top_k", "in_dtype"},
   ProfilingConfig |-> {"gpu_profiling"},
   MAXModelConfig |-> {"model_path", "weight_path"},
   KVCacheConfig |-> {"cache_strategy", "kv_cache_page_size"}]

Keys ==
  UNION {FieldsOf[c] : c \in DOMAIN FieldsOf} \cup {"not_a_field"}

\* One pass of the loop over config_name: the keys it matches, the KVCache
\* keys it collects, and what it leaves in unmatched_kwargs.
ConfigPass(config_class, unmatched_kwargs) ==
  LET matched_kwargs == unmatched_kwargs \cap FieldsOf[config_class]
      kv_cache_kwargs ==
        IF config_class = "MAXModelConfig"
        THEN (unmatched_kwargs \ matched_kwargs) \cap FieldsOf.KVCacheConfig
        ELSE {}
  IN  IF matched_kwargs # {}
      THEN [config |-> matched_kwargs, kv_cache |-> kv_cache_kwargs,
            left |-> (unmatched_kwargs \ matched_kwargs) \ kv_cache_kwargs]
      ELSE [config |-> {}, kv_cache |-> {}, left |-> unmatched_kwargs]

\* The whole __init__ up to the raise of ValueError('Unmatched kwargs').
PipelineInit(kwargs) ==
  LET own == kwargs \cap FieldsOf.PipelineConfig
      sampling == ConfigPass("SamplingConfig", kwargs \ own)
      profiling == ConfigPass("ProfilingConfig", sampling.left)
      model == ConfigPass("MAXModelConfig", profiling.left)
  IN  [done |-> TRUE, kwargs |-> kwargs, raised |-> model.left # {},
       pipeline |-> own, sampling |-> sampling.config,
       profiling |-> profiling.config, model |-> model.config,
       kv_cache |-> model.kv_cache]

InitKwargs ==
  /\ NoEngine
  /\ retry = NotInvoked
  /\ ramp_mask = NoRamp
  /\ hf_tqdm = NoTqdm
  /\ pipeline \in {[NoPipeline EXCEPT !.kwargs = k] : k \in SUBSET Keys}

\* One construction of a PipelineConfig from keyword arguments.
Construct ==
  /\ ~pipeline.done
  /\ pipeline' = PipelineInit(pipeline.kwargs)
  /\ UNCHANGED <<engine, retry, ramp_mask, hf_tqdm>>

NextKwargs == Construct

SpecKwargs == InitKwargs /\ [][NextKwargs]_vars

(***************************************************************************)
(* Properties.                                                             *)
(***************************************************************************)
Returns == call.done /\ ~call.raised

Half == HeadDim(cfg) \div 2

\* Element (b, t, h, j) of an activation.
ElAt(x, b, t, h, j) ==
  El(x, ((b * x.shape[2] + t) * x.shape[3] + h) * x.shape[4] + j)

\* The places of the real and the imaginary part of pair i in a head.
ReIndex(i) == IF cfg.interleaved THEN 2 * i ELSE i
ImIndex(i) == IF cfg.interleaved THEN 2 * i + 1 ELSE i + Half

\* The table a build from the configuration produces, and its entry
\* (cos, sin) at a row and a frequency component.
BaseTable == BuildTable(cfg)
TableCos(row, i) == El(BaseTable, (row * Half + i) * 2)
TableSin(row, i) == El(BaseTable, (row * Half + i) * 2 + 1)

Batches(x) == 0..(x.shape[1] - 1)
Tokens(x) == 0..(x.shape[2] - 1)
Heads(x) == 0..(x.shape[3] - 1)
Pairs == 0..(Half - 1)

\* Pair i of token (b, t, h) of out is pair i of x rotated by table row.
RotatedByRow(x, out, b, t, h, i, row) ==
  LET re == ElAt(x, b, t, h, ReIndex(i))
      im == ElAt(x, b, t, h, ImIndex(i))
  IN  /\ ElAt(out, b, t, h, ReIndex(i)) = re * TableCos(row, i) - im * TableSin(row, i)
      /\ ElAt(out, b, t, h, ImIndex(i)) = re * TableSin(row, i) + im * TableCos(row, i)

\* C1: whenever __call__ returns, its result has the shape and the dtype of
\* the activation it was given, for the three engines and both layouts.
C1_SameShapeAndDtype ==
  Returns => /\ call.out.shape = call.x.shape
             /\ call.out.dtype = call.x.dtype
             /\ Len(call.out.data) = Prod(call.x.shape)

C1_Witness ==
  /\ Returns
  /\ cfg.kind = "Llama3RotaryEmbedding"
  /\ ~cfg.interleaved
  /\ call.x.dtype = "bfloat16"
  /\ call.x.shape[2] = 2

\* The seq_len the caller means: the argument, or when it is omitted the
\* seq_len axis of the activation.
MeantSeqLen ==
  IF call.seq_len = NoArg THEN call.x.shape[2] ELSE call.seq_len[1]

\* C2 (as claimed): every token t < seq_len of the result is the token of the
\* activation with each pair i rotated by the table entry at row
\* start_pos + t, component i.
C2_TokenRotatedByItsRow ==
  Returns =>
    \A b \in Batches(call.x), t \in Tokens(call.x), h \in Heads(call.x), i \in Pairs :
      (t < MeantSeqLen /\ StartPos(call.start_pos) + t < 2 * cfg.max_seq_len)
        => RotatedByRow(call.x, call.out, b, t, h, i, StartPos(call.start_pos) + t)

\* C3 (as claimed): with seq_len omitted, the window sliced from the table
\* is as long as the seq_len axis (axis 1) of the activation.
C3_DefaultWindowIsSeqAxis ==
  (call.done /\ call.seq_len = NoArg)
    => Window(PropertyValue, call.x, call.start_pos, call.seq_len).shape[1]
         = call.x.shape[2]

\* C4: the token at absolute position 0 (start_pos = 0, t = 0) comes out of
\* __call__ unchanged, and row 0 of the table is (1, 0) in every component.
C4_PositionZeroIsIdentity ==
  /\ \A i \in Pairs : TableCos(0, i) = 1 /\ TableSin(0, i) = 0
  /\ (Returns /\ StartPos(call.start_pos) = 0) =>
       \A b \in Batches(call.x), h \in Heads(call.x), j \in 0..(HeadDim(cfg) - 1) :
         ElAt(call.out, b, 0, h, j) = ElAt(call.x, b, 0, h, j)

C4_Witness ==
  /\ Returns
  /\ call.start_pos = Arg(0)
  /\ call.x.shape[2] = 2
  /\ call.out.data # call.x.data
  /\ ~cfg.interleaved

\* C5: every table entry is a point of the unit circle and every pair of the
\* result has the squared norm of the pair of the activation it comes from.
C5_Isometry ==
  /\ \A row \in 0..(2 * cfg.max_seq_len - 1), i \in Pairs :
       TableCos(row, i) * TableCos(row, i) + TableSin(row, i) * TableSin(row, i) = 1
  /\ Returns =>
       \A b \in Batches(call.x), t \in Tokens(call.x), h \in Heads(call.x), i \in Pairs :
         LET re == ElAt(call.x, b, t, h, ReIndex(i))
             im == ElAt(call.x, b, t, h, ImIndex(i))
             re2 == ElAt(call.out, b, t, h, ReIndex(i))
             im2 == ElAt(call.out, b, t, h, ImIndex(i))
         IN  re2 * re2 + im2 * im2 = re * re + im * im

C5_Witness ==
  /\ Returns
  /\ cfg.scaling_params # NoParams
  /\ call.out.data # call.x.data

\* The conjugate (cos, -sin) of every entry of a slice of the table, in
\* either layout of the table.
Conj(sliced) ==
  Tensor(sliced.shape, sliced.dtype,
         LAMBDA p : IF p % 2 = 1 THEN 0 - El(sliced, p) ELSE El(sliced, p))

C7_TableNeverChanges ==
  [][_freqs_cis # None => _freqs_cis' = _freqs_cis]_vars

\* C8: construction builds nothing, the first freqs_cis_base, freqs_cis or
\* __call__ builds the inverse frequencies and the table, and no later one
\* builds them again.
C8_BuiltAtMostOnce ==
  /\ n_table <= 1 /\ n_inv <= 1
  /\ n_table = 0 <=> _freqs_cis = None
  /\ n_inv = n_table
  /\ (call.done \/ back.done \/ cache # None) => n_table = 1

C8_Witness ==
  /\ back.done
  /\ cfg.kind = "Llama3RotaryEmbedding"
  /\ n_table = 1 /\ n_inv = 1

\* C9 (as claimed): each of two threads racing through its first access of
\* freqs_cis completes without raising and obtains the table a
\* single-threaded first access obtains.
C9_RaceIsBenign ==
  \A t \in Threads :
    pc[t] = "done" => (~got[t].raised /\ got[t].out = GetterValue(BaseTable))

\* C10: on an OptimizedRotaryEmbedding, __call__ returns what a
\* RotaryEmbedding of the same configuration returns, and every row of the
\* flattened table, reshaped to (head_dim/2, 2), is that row of the 3-D table.
C10_FlattenedIsReshape ==
  cfg.kind = "OptimizedRotaryEmbedding" =>
    /\ call.done =>
         [raised |-> call.raised, out |-> call.out]
           = CallOn(BaseTable, call.x, call.start_pos, call.seq_len, cfg.interleaved)
    /\ cache # None =>
         \A row \in 0..(2 * cfg.max_seq_len - 1) :
           /\ Len(cache.shape) = 2
           /\ Unflatten(SliceFirst(cache, row, row + 1))
                = SliceFirst(BaseTable, row, row + 1)

C10_Witness ==
  /\ cfg.kind = "OptimizedRotaryEmbedding"
  /\ Returns
  /\ call.start_pos # NoArg
  /\ call.x.shape[2] = 2
  /\ call.out.data # call.x.data

\* C11 (as claimed): the construction of an engine whose dim is not divisible
\* by n_heads raises, so that no such instance exists.
C11_NonDivisibleIsRejected ==
  (post_init # "pending" /\ cfg.dim % cfg.n_heads # 0) => post_init = "raised"

\* The components of the vector _compute_inv_freqs returned.
Components == 1..Len(inv_freqs.out)

ValidConfig == cfg.dim % cfg.n_heads = 0 /\ HeadDim(cfg) % 2 = 0

\* C14: on a valid config the base _compute_inv_freqs returns head_dim/2
\* values, the k-th (from 0) being 1 / theta^(2k/head_dim), that is 1/d with
\* d^(head_dim/2) = theta^k; all are positive, and they strictly decrease
\* when theta > 1.
C14_InvFreqsFormula ==
  (inv_freqs.done /\ ValidConfig /\ cfg.kind # "Llama3RotaryEmbedding") =>
    /\ ~inv_freqs.raised
    /\ Len(inv_freqs.out) = HeadDim(cfg) \div 2
    /\ \A k \in Components :
         /\ inv_freqs.out[k][1] = 1
         /\ inv_freqs.out[k][2] > 0
         /\ Pow(inv_freqs.out[k][2], HeadDim(cfg) \div 2) = Pow(cfg.theta, k - 1)
    /\ cfg.theta > 1 =>
         \A k \in Components \ {1} : RLess(inv_freqs.out[k], inv_freqs.out[k - 1])

C14_Witness ==
  /\ inv_freqs.done
  /\ cfg.kind = "OptimizedRotaryEmbedding"
  /\ cfg.dim = 6 /\ cfg.n_heads = 1 /\ cfg.theta = 64
  /\ inv_freqs.out = <<RInt(1), Rat(1, 4), Rat(1, 16)>>

\* The call of Llama3RotaryEmbedding._compute_inv_freqs with scaling_params
\* set has returned; the vector super()._compute_inv_freqs() gave it.
Scaled ==
  /\ inv_freqs.done
  /\ cfg.kind = "Llama3RotaryEmbedding"
  /\ cfg.scaling_params # NoParams

BaseF(k) == BaseInvFreqs(cfg)[k]

\* The three-branch reference, for a component f with wavelen = 2*pi/f and
\* the value got for it; smooth is defined when the factors differ.
C15_AgreesWithReference(f, p, value) ==
  LET wavelen == RDiv(RInt(TwoPi), f)
      high_wavelen == Rat(p.orig_max_position, p.high_freq_factor)
      low_wavelen == Rat(p.orig_max_position, p.low_freq_factor)
      smooth == RDiv(RSub(RDiv(RInt(p.orig_max_position), wavelen),
                          RInt(p.low_freq_factor)),
                     RInt(p.high_freq_factor - p.low_freq_factor))
  IN  IF RLess(wavelen, high_wavelen) THEN value = f
      ELSE IF RLess(low_wavelen, wavelen) THEN value = RDiv(f, RInt(p.factor))
      ELSE p.low_freq_factor # p.high_freq_factor =>
             value = RAdd(RDiv(RMul(RSub(RInt(1), smooth), f), RInt(p.factor)),
                          RMul(smooth, f))

\* C15: with scaling_params set, every component of the vector
\* Llama3RotaryEmbedding._compute_inv_freqs returns is what the three-branch
\* reference gives for that component alone: f if wavelen < orig/high, else
\* f/factor if wavelen > orig/low, else the blend by smooth; and with
\* low_freq_factor=1, high_freq_factor=4, factor=8, orig_max_position=8192 a
\* component below the high-frequency wavelength comes back unscaled.
C15_ThreeBranchReference ==
  Scaled =>
    /\ Len(inv_freqs.out) = Len(BaseInvFreqs(cfg))
    /\ \A k \in Components :
         /\ C15_AgreesWithReference(BaseF(k), cfg.scaling_params, inv_freqs.out[k])
         /\ ( /\ cfg.scaling_params =
                   [factor |-> 8, low_freq_factor |-> 1, high_freq_factor |-> 4,
                    orig_max_position |-> 8192]
              /\ RLess(RDiv(RInt(TwoPi), BaseF(k)), RInt(2048)) )
            => inv_freqs.out[k] = BaseF(k)

\* One vector with a component in each of the three branches.
C15_Witness ==
  /\ Scaled
  /\ cfg.scaling_params =
       [factor |-> 8, low_freq_factor |-> 2, high_freq_factor |-> 4,
        orig_max_position |-> 32]
  /\ BaseInvFreqs(cfg) = <<RInt(1), Rat(1, 4), Rat(1, 16)>>
  /\ inv_freqs.out = <<RInt(1), Rat(1, 32), Rat(1, 128)>>

\* The value at the two boundaries: the blend and the rescaled component.
NoJumpAtBoundaries(k) ==
  LET f == BaseF(k)
      p == cfg.scaling_params
  IN  /\ WaveLen(f) = HighFreqWavelen(p) =>
           Llama3Blend(f, p) = f /\ inv_freqs.out[k] = f
      /\ WaveLen(f) = LowFreqWavelen(p) =>
           /\ Llama3Blend(f, p) = RDiv(f, RInt(p.factor))
           /\ inv_freqs.out[k] = RDiv(f, RInt(p.factor))

\* C16 (as claimed): when low_freq_factor # high_freq_factor, at wavelen =
\* high_wavelen the blend is f and at wavelen = low_wavelen it is f/factor,
\* and the rescaled frequency has those values there: no jump at either
\* boundary.
C16_NoJumpWhenFactorsDiffer ==
  (Scaled /\ cfg.scaling_params.low_freq_factor # cfg.scaling_params.high_freq_factor)
    => \A k \in Components : NoJumpAtBoundaries(k)

\* C16 (amended): the same when low_freq_factor < high_freq_factor.
C16_NoJumpWhenLowBelowHigh ==
  (Scaled /\ cfg.scaling_params.low_freq_factor < cfg.scaling_params.high_freq_factor)
    => \A k \in Components : NoJumpAtBoundaries(k)

\* A vector with a component on each boundary.
C16_Witness ==
  /\ Scaled
  /\ cfg.scaling_params.low_freq_factor < cfg.scaling_params.high_freq_factor
  /\ cfg.scaling_params.factor = 8
  /\ \E k \in Components : WaveLen(BaseF(k)) = HighFreqWavelen(cfg.scaling_params)
  /\ \E k \in Components : WaveLen(BaseF(k)) = LowFreqWavelen(cfg.scaling_params)

EqualFactors ==
  cfg.scaling_params.low_freq_factor = cfg.scaling_params.high_freq_factor

\* A float that is neither inf nor nan.
Finite(r) == r[2] # 0

\* C20 (as claimed): when low_freq_factor = high_freq_factor nothing is
\* divided by zero and, for every component, also one whose wavelength is
\* orig_max_position/low_freq_factor exactly, the selected result is the
\* operand of the high-frequency or of the low-frequency branch.
C20_MidBandNeverEntered ==
  (Scaled /\ EqualFactors) =>
    \A k \in Components :
      /\ Finite(Llama3Smooth(BaseF(k), cfg.scaling_params))
      /\ Finite(inv_freqs.out[k])
      /\ Llama3Branch(BaseF(k), cfg.scaling_params) \in {"high", "low"}

\* C20 (amended): when low_freq_factor = high_freq_factor nothing is divided
\* by zero, smooth is 0, and every component comes back as f when its
\* wavelength is below orig_max_position/low_freq_factor and as f/factor
\* otherwise; the mid-band operand is selected exactly for a component whose
\* wavelength equals orig_max_position/low_freq_factor, where it is f/factor.
C20_EqualFactorsDegenerateSafely ==
  (Scaled /\ EqualFactors) =>
    \A k \in Components :
      LET f == BaseF(k)
          p == cfg.scaling_params
      IN  /\ Llama3Smooth(f, p) = RInt(0)
          /\ Finite(inv_freqs.out[k])
          /\ inv_freqs.out[k] = IF RLess(WaveLen(f), LowFreqWavelen(p)) THEN f
                                ELSE RDiv(f, RInt(p.factor))
          /\ Llama3Branch(f, p) = "mid" <=> WaveLen(f) = LowFreqWavelen(p)
          /\ Llama3Branch(f, p) = "mid" => Llama3Blend(f, p) = RDiv(f, RInt(p.factor))

C20_Witness ==
  /\ Scaled /\ EqualFactors
  /\ \E k \in Components : WaveLen(BaseF(k)) = LowFreqWavelen(cfg.scaling_params)
  /\ \E k \in Components : RLess(WaveLen(BaseF(k)), LowFreqWavelen(cfg.scaling_params))
  /\ \E k \in Components : RLess(LowFreqWavelen(cfg.scaling_params), WaveLen(BaseF(k)))

\* C12 (as claimed): a __call__ whose requested window
\* [start_pos, start_pos + seq_len), seq_len being the argument or else the
\* seq_len axis of the activation, ends beyond the rows of the table raises
\* and returns no tensor.
C12_WindowBeyondTableRaises ==
  (call.done /\ StartPos(call.start_pos) + MeantSeqLen > 2 * cfg.max_seq_len)
    => call.raised /\ call.out = None

\* C19: pair i of a token is (x[2i], x[2i+1]) when interleaved and
\* (x[i], x[i + head_dim/2]) otherwise, and the result holds the rotated
\* pair (re', im'), for one row of the table, at those same two indices.
C19_PairLayoutPreserved ==
  Returns =>
    \A b \in Batches(call.x), t \in Tokens(call.x), h \in Heads(call.x), i \in Pairs :
      LET at_re == IF cfg.interleaved THEN 2 * i ELSE i
          at_im == IF cfg.interleaved THEN 2 * i + 1 ELSE i + HeadDim(cfg) \div 2
          re == ElAt(call.x, b, t, h, at_re)
          im == ElAt(call.x, b, t, h, at_im)
      IN  \E row \in 0..(2 * cfg.max_seq_len - 1) :
            /\ ElAt(call.out, b, t, h, at_re)
                 = re * TableCos(row, i) - im * TableSin(row, i)
            /\ ElAt(call.out, b, t, h, at_im)
                 = re * TableSin(row, i) + im * TableCos(row, i)

C19_Witness ==
  /\ Returns
  /\ ~cfg.interleaved
  /\ HeadDim(cfg) = 4
  /\ StartPos(call.start_pos) = 1
  /\ call.out.data # call.x.data

\* C13: __call__ of a DeepseekYarnRotaryEmbedding whose scaling_params is None
\* raises, computes no frequency and no table, and leaves _freqs_cis and
\* inv_freq as they were.
C13_MissingParamsRaiseFirst ==
  [][(YarnParamsMissing(cfg) /\ ~call.done /\ call'.done) =>
       /\ call'.raised /\ call'.out = None
       /\ _freqs_cis' = _freqs_cis
       /\ inv_freq' = inv_freq
       /\ n_inv' = n_inv /\ n_table' = n_table]_vars

C13_Witness ==
  /\ cfg.kind = "DeepseekYarnRotaryEmbedding"
  /\ YarnParamsMissing(cfg)
  /\ call.done /\ call.raised
  /\ _freqs_cis # None
  /\ inv_freq = None

YarnReturns ==
  cfg.kind = "DeepseekYarnRotaryEmbedding" /\ call.done /\ ~call.raised

\* Entry (t, j) of table part (0 the cosines, 1 the sines) of the result.
YarnAt(part, t, j) ==
  El(call.out, (part * call.out.shape[2] + t) * call.out.shape[3] + j)

\* C17: the result of DeepseekYarnRotaryEmbedding.__call__ is the stack
\* [cos_table, sin_table] on a new leading axis; each table has a row for
\* every position t = 0 .. x.shape[-2] - 1, holding cos (sin) of
\* t * inv_freq times mscale, and dim columns of which column j equals
\* column j + dim/2.
C17_StackOfDuplicatedTables ==
  YarnReturns =>
    LET rows == call.x.shape[Len(call.x.shape) - 1]
        half == cfg.dim \div 2
    IN  /\ call.out.shape = <<2, rows, cfg.dim>>
        /\ Len(call.out.data) = 2 * rows * cfg.dim
        /\ Len(inv_freq) = half
        /\ \A t \in 0..(rows - 1), j \in 0..(half - 1) :
             /\ YarnAt(0, t, j + half) = YarnAt(0, t, j)
             /\ YarnAt(1, t, j + half) = YarnAt(1, t, j)
             /\ YarnAt(0, t, j)
                  = RMul(RInt(Cos(RMul(RInt(t), inv_freq[j + 1]))), YarnMscale(cfg))
             /\ YarnAt(1, t, j)
                  = RMul(RInt(Sin(RMul(RInt(t), inv_freq[j + 1]))), YarnMscale(cfg))

C17_Witness ==
  /\ YarnReturns
  /\ cfg.dim = 4
  /\ cfg.scaling_params.scaling_factor = 2
  /\ call.x.shape[3] = 2
  /\ YarnAt(0, 1, 0) # YarnAt(0, 1, 1)
  /\ YarnAt(1, 1, 0) # YarnAt(1, 1, 1)

RetryEnded == retry.pc \in {"returned", "raised"}

\* C18: repo_exists_with_retry always terminates: whatever
\* huggingface_hub.repo_exists does on each call, the function makes at
\* most 5 calls and sleeps at most 4 times, never reaches the assert False
\* after its loop, and ends by returning or by raising.
C18_RetryTerminates ==
  /\ [](/\ retry.calls <= 5
        /\ retry.sleeps <= 4
        /\ retry.pc # "assert_false")
  /\ <>RetryEnded

C18_Witness ==
  /\ retry.pc = "raised"
  /\ retry.calls = 5
  /\ retry.sleeps = 4
  /\ retry.error \in TransientErrors

\* The preconditions of the rescaling: factor >= 1 and
\* 0 < low_freq_factor < high_freq_factor.
WellFormedParams(p) ==
  /\ p.factor >= 1
  /\ 0 < p.low_freq_factor
  /\ p.low_freq_factor < p.high_freq_factor

\* C21: for factor >= 1 and 0 < low_freq_factor < high_freq_factor the
\* vector Llama3RotaryEmbedding._compute_inv_freqs returns is as long as the
\* base vector (head_dim/2 on a valid config), every entry f' lies between
\* f/factor and f, every entry is positive, and where the base vector
\* strictly decreases the result strictly decreases too, also from one
\* band to the next.
C21_RescalingKeepsVectorWellFormed ==
  (Scaled /\ WellFormedParams(cfg.scaling_params)) =>
    /\ ~inv_freqs.raised
    /\ Len(inv_freqs.out) = Len(BaseInvFreqs(cfg))
    /\ ValidConfig => Len(inv_freqs.out) = HeadDim(cfg) \div 2
    /\ \A k \in Components :
         /\ RLeq(RDiv(BaseF(k), RInt(cfg.scaling_params.factor)), inv_freqs.out[k])
         /\ RLeq(inv_freqs.out[k], BaseF(k))
         /\ RLess(RInt(0), inv_freqs.out[k])
    /\ \A k \in Components \ {1} :
         RLess(BaseF(k), BaseF(k - 1)) => RLess(inv_freqs.out[k], inv_freqs.out[k - 1])

\* A vector with one component in each band, the middle one strictly
\* inside.
C21_Witness ==
  /\ Scaled /\ WellFormedParams(cfg.scaling_params)
  /\ cfg.scaling_params.factor = 8
  /\ Len(inv_freqs.out) = 3
  /\ Llama3Branch(BaseF(1), cfg.scaling_params) = "high"
  /\ Llama3Branch(BaseF(2), cfg.scaling_params) = "mid"
  /\ RLess(RInt(0), Llama3Smooth(BaseF(2), cfg.scaling_params))
  /\ RLess(Llama3Smooth(BaseF(2), cfg.scaling_params), RInt(1))
  /\ Llama3Branch(BaseF(3), cfg.scaling_params) = "low"

\* C22: the correction range (low, high) a returning Yarn __call__ used
\* satisfies low >= 0 and high <= dim/2 - 1, the last index of the ramp
\* mask.
C22_RangeWithinMask ==
  YarnReturns =>
    /\ YarnRange(cfg)[1] >= 0
    /\ YarnRange(cfg)[2] <= cfg.dim \div 2 - 1

\* The ramp of the reference at index j (from 0): clamp((j - low)/(high -
\* low), 0, 1), high nudged by 0.001 when low = high.
RampReference(j, low, high) ==
  LET top == IF low = high THEN RAdd(RInt(high), Rat(1, 1000)) ELSE RInt(high)
      v == RDiv(RInt(j - low), RSub(top, RInt(low)))
  IN  IF RLess(v, RInt(0)) THEN RInt(0)
      ELSE IF RLess(RInt(1), v) THEN RInt(1) ELSE v

\* The mask has n values, each the reference's, finite and in [0, 1], and
\* they do not decrease with the index.
RampWellFormed ==
  /\ Len(ramp_mask.out) = ramp_mask.dim
  /\ \A k \in 1..Len(ramp_mask.out) :
       /\ Finite(ramp_mask.out[k])
       /\ ramp_mask.out[k] = RampReference(k - 1, ramp_mask.min, ramp_mask.max)
       /\ RLeq(RInt(0), ramp_mask.out[k]) /\ RLeq(ramp_mask.out[k], RInt(1))
  /\ \A k \in 2..Len(ramp_mask.out) : RLeq(ramp_mask.out[k - 1], ramp_mask.out[k])

\* C23 (as claimed): for any low, high and n the mask
\* _yarn_linear_ramp_mask(low, high, n) has n values clamp((j - low)/(high -
\* low), 0, 1), all in [0, 1] and non-decreasing in j; with low = high
\* nothing is divided by zero and the mask is finite and monotonic.
C23_RampMonotoneForAnyBounds == ramp_mask.done => RampWellFormed

\* C23 (amended): the same for low <= high.
C23_RampMonotoneWhenLowNotAboveHigh ==
  (ramp_mask.done /\ ramp_mask.min <= ramp_mask.max) => RampWellFormed

\* The degenerate mask: low = high = 1 over three indices.
C23_Witness ==
  /\ ramp_mask.done
  /\ ramp_mask.min = 1 /\ ramp_mask.max = 1 /\ ramp_mask.dim = 3
  /\ ramp_mask.out = <<RInt(0), RInt(0), RInt(1)>>

\* freq_extra[j] = 1 / theta^(2j/dim) and freq_inter[j] =
\* freq_extra[j] / scaling_factor, j from 0.
FreqExtra(j) == RDiv(RInt(1), RInt(ThetaPow(cfg.theta, 2 * j, cfg.dim)))

FreqInter(j) == RDiv(FreqExtra(j), RInt(cfg.scaling_params.scaling_factor))

\* v lies between a and b.
Between(v, a, b) ==
  \/ RLeq(a, v) /\ RLeq(v, b)
  \/ RLeq(b, v) /\ RLeq(v, a)

\* inv_freq[j] = ramp[j] * freq_inter[j] + (1 - ramp[j]) * freq_extra[j].
BlendedByRamp(j) ==
  LET r == RampReference(j, YarnRange(cfg)[1], YarnRange(cfg)[2])
  IN  inv_freq[j + 1] = RAdd(RMul(r, FreqInter(j)),
                             RMul(RSub(RInt(1), r), FreqExtra(j)))

MaskIndices == 0..(cfg.dim \div 2 - 1)

\* C24 (as claimed): after _compute_yarn_freqs, inv_freq[j] is the blend by
\* ramp[j]; it is freq_extra[j] for every j <= low, freq_inter[j] for every
\* j >= high, and between the two for low < j < high.
C24_BlendByBand ==
  YarnReturns =>
    \A j \in MaskIndices :
      LET low == YarnRange(cfg)[1]
          high == YarnRange(cfg)[2]
      IN  /\ BlendedByRamp(j)
          /\ j <= low => inv_freq[j + 1] = FreqExtra(j)
          /\ j >= high => inv_freq[j + 1] = FreqInter(j)
          /\ (low < j /\ j < high) =>
               Between(inv_freq[j + 1], FreqInter(j), FreqExtra(j))

\* C24 (amended): when low <= high, inv_freq[j] is the blend by ramp[j]; it
\* is freq_extra[j] for every j <= low, freq_inter[j] for every j >= high
\* other than j = low, and between the two for low < j < high.
C24_BlendByBandWithLowFirst ==
  YarnReturns =>
    \A j \in MaskIndices :
      LET low == YarnRange(cfg)[1]
          high == YarnRange(cfg)[2]
      IN  /\ BlendedByRamp(j)
          /\ low <= high =>
               /\ j <= low => inv_freq[j + 1] = FreqExtra(j)
               /\ (j >= high /\ j # low) => inv_freq[j + 1] = FreqInter(j)
               /\ (low < j /\ j < high) =>
                    Between(inv_freq[j + 1], FreqInter(j), FreqExtra(j))

\* An engine with an index in each band, one of them strictly inside, and
\* a scaling factor that tells the two frequencies apart.
C24_Witness ==
  /\ YarnReturns
  /\ cfg.scaling_params.scaling_factor = 2
  /\ YarnRange(cfg)[1] < YarnRange(cfg)[2]
  /\ \E j \in MaskIndices : j <= YarnRange(cfg)[1]
  /\ \E j \in MaskIndices : j >= YarnRange(cfg)[2]
  /\ \E j \in MaskIndices :
       /\ YarnRange(cfg)[1] < j /\ j < YarnRange(cfg)[2]
       /\ inv_freq[j + 1] # FreqExtra(j)
       /\ inv_freq[j + 1] # FreqInter(j)

\* C25: in every state an engine of any class can reach by accesses of
\* freqs_cis_base, freqs_cis and __call__, a call of freqs_cis_base()
\* returns a table of shape (2 * max_seq_len, head_dim / 2, 2).
C25_BaseTableStaysThreeD ==
  AfterBase(_freqs_cis).shape = <<2 * cfg.max_seq_len, HeadDim(cfg) \div 2, 2>>

\* Two calls were made on activations of one shape and dtype.
CalledTwice ==
  /\ call.done /\ again.done
  /\ again.x.shape = call.x.shape
  /\ again.x.dtype = call.x.dtype

\* C26: two calls of DeepseekYarnRotaryEmbedding.__call__ on one engine
\* that differ only in the element values of x, in start_pos or in seq_len
\* end alike and return identical tables, and the tables begin at position
\* 0: the first row of cosines is mscale and the first row of sines is 0.
C26_ResultIgnoresValuesAndPosition ==
  CalledTwice =>
    /\ again.raised = call.raised
    /\ again.out = call.out
    /\ ~again.raised =>
         \A j \in 0..(cfg.dim - 1) :
           /\ El(again.out, j) = YarnMscale(cfg)
           /\ El(again.out, again.out.shape[2] * cfg.dim + j) = RInt(0)

C26_Witness ==
  /\ CalledTwice
  /\ ~again.raised
  /\ again.x.data # call.x.data
  /\ again.start_pos # call.start_pos
  /\ again.seq_len # call.seq_len
  /\ again.out.shape[2] = 2

\* The most recent call of huggingface_hub.repo_exists raised an error the
\* function forwards: one of the four repository errors, or in hf_utils an
\* HTTP error with status 429.
LastIsForwarded ==
  /\ retry.calls > 0
  /\ retry.last.raises
  /\ \/ retry.last.class \in ForwardedErrors
     \/ /\ retry.variant = "hf_utils"
        /\ retry.last.class \in TransientErrors
        /\ retry.last.has_response
        /\ retry.last.status = 429

\* C27: a RepositoryNotFoundError, GatedRepoError, RevisionNotFoundError or
\* EntryNotFoundError, and in hf_utils an HTTP 429, is re-raised on the
\* attempt where it occurs: the function has ended by raising that error,
\* it slept only between the earlier attempts, and no call follows.
C27_ForwardedErrorsRaiseAtOnce ==
  LastIsForwarded =>
    /\ retry.pc = "raised"
    /\ retry.error = retry.last.class
    /\ retry.sleeps = retry.calls - 1
    /\ Len(retry.slept) = retry.calls - 1

C27_Witness ==
  /\ LastIsForwarded
  /\ retry.variant = "hf_utils"
  /\ retry.last.status = 429
  /\ retry.calls = 3
  /\ retry.pc = "raised"

\* The most recent call raised an HfHubHTTPError or a requests
\* ConnectionError that is not an HTTP 429.
LastIsTransient ==
  /\ retry.calls > 0
  /\ retry.last.raises
  /\ retry.last.class \in TransientErrors
  /\ ~(retry.last.has_response /\ retry.last.status = 429)

\* The delay slept after attempt k (from 1) is 2^(k-1) seconds within 25%,
\* in quarter seconds.
DelayWithinJitter(k) ==
  /\ 3 * 2 ^ (k - 1) <= retry.slept[k]
  /\ retry.slept[k] <= 5 * 2 ^ (k - 1)

\* C28: when attempt k < 5 fails with an HfHubHTTPError or a requests
\* ConnectionError that is not an HTTP 429, also one without a response,
\* the function sleeps that attempt's delay, 2^(k-1) seconds within 25%,
\* and goes on to attempt k + 1; such a failure is raised only on the fifth
\* attempt.
C28_TransientErrorsAreRetried ==
  LastIsTransient =>
    /\ retry.calls < max_attempts =>
         \/ retry.pc = "sleeping" /\ retry.sleeps = retry.calls - 1
         \/ /\ retry.pc = "loop"
            /\ retry.attempt = retry.calls
            /\ retry.sleeps = retry.calls
            /\ Len(retry.slept) = retry.calls
            /\ DelayWithinJitter(retry.calls)
    /\ retry.pc = "raised" => retry.calls = max_attempts

InBody(t) == hf_tqdm.at[t] \in {"guest", "owner"}

AllOut ==
  /\ \A t \in Users : hf_tqdm.at[t] \in {"outside", "exit raised"} \cup BodyEnds
  /\ \E t \in Users : hf_tqdm.at[t] # "outside"

\* C29: for any interleaving of threads using
\* _hf_tqdm_using_threading_only_lock, a write lock that exists is never
\* replaced, hf_tqdm has a _lock attribute while any thread is in the body
\* of its context, no entry or exit raises, and once every use has exited
\* the presence of _lock is what it was before the first entry.
C29_LockSafeUnderInterleaving ==
  /\ ~hf_tqdm.replaced
  /\ \A t \in DOMAIN hf_tqdm.at : InBody(t) => hf_tqdm.has_lock
  /\ \A t \in DOMAIN hf_tqdm.at : hf_tqdm.at[t] # "exit raised"
  /\ (hf_tqdm.at # <<>> /\ AllOut) => hf_tqdm.has_lock = hf_tqdm.had_lock

\* C30: PipelineConfig.__init__ raises ValueError('Unmatched kwargs')
\* exactly when some key is a field of none of PipelineConfig,
\* SamplingConfig, ProfilingConfig, MAXModelConfig and KVCacheConfig, and
\* otherwise applies every key to the config that declares it, whatever
\* the combination of keys.
C30_KwargsRoutedToDeclaringConfig ==
  pipeline.done =>
    /\ pipeline.raised <=> "not_a_field" \in pipeline.kwargs
    /\ ~pipeline.raised =>
         /\ pipeline.pipeline = pipeline.kwargs \cap FieldsOf.PipelineConfig
         /\ pipeline.sampling = pipeline.kwargs \cap FieldsOf.SamplingConfig
         /\ pipeline.profiling = pipeline.kwargs \cap FieldsOf.ProfilingConfig
         /\ pipeline.model = pipeline.kwargs \cap FieldsOf.MAXModelConfig
         /\ pipeline.kv_cache = pipeline.kwargs \cap FieldsOf.KVCacheConfig

====
